---- MODULE Spec2Model ----
(***************************************************************************)
(* A model of the gda-backup reconciliation engine (src/src/backup.rs)     *)
(* together with the three stores it drives: the object store (S3,         *)
(* versioned bucket), the metadata store (DynamoDB table of HashTrackers)   *)
(* and the local catalogue (tables local_state and glacier_state).          *)
(*                                                                         *)
(* Paths and content hashes are small integers.  A backup run is a walk    *)
(* through the phases of the run; each phase action is the whole handler   *)
(* (query, bookkeeping writes, complete_put / complete_delete).            *)
(***************************************************************************)
EXTENDS Integers, Sequences, FiniteSets, TLC

(* ------------------------------ bounds --------------------------------- *)
NumPaths == 2
NumHashes == 2
MaxTime == 2
MaxMtime == 2
MaxRuns == 3
\* remote calls that return an error, over a whole behaviour
MaxFaults == 1
\* versions of a key in the object store a command starts from
MaxVersions == 2
\* regexes in an exclude list
MaxFilters == 2
\* remote calls that return an error in one call of upload_new_files taken alone
MaxPhaseFaults == 2
\* characters on standard input
MaxLine == 4
\* file sizes tried on each side of a limit, in MiB
Window == 6
\* resolution of a DateTime: instants per second
TicksPerSecond == 2
\* args.min_storage_duration (environment.rs 127-128, a command-line argument), in
\* clock ticks of the model
min_storage_duration == 1

(* ------------------------- program constants --------------------------- *)
\* dynamodb.rs: const NONE_STR, the sentinel of an empty string set
NONE_STR == 0
\* DateTime::UNIX_EPOCH
UNIX_EPOCH == 0

Paths == 1..NumPaths
Hashes == 1..NumHashes
\* file_hash: None
NoHash == 0
\* uploaded: None
NoTime == -1

\* s3.rs 60-66; sizes are counted in MiB (2^20 bytes), which every limit is a multiple of
MULTIPART_UPLOAD_THRESHOLD == 100
MIN_CHUNK_SIZE == 5
MAX_CHUNKS == 10000
MAX_S3_OBJECT_SIZE == 5242880

(* ------------------------------ helpers -------------------------------- *)
\* v is evaluated once and Op applied to its value
Let(v, Op(_)) == CHOOSE y \in {Op(x) : x \in {v}} : TRUE

Fold(Op(_, _), base, seq) ==
    LET F[i \in 0..Len(seq)] ==
            IF i = 0 THEN base ELSE Let(F[i - 1], LAMBDA a : Op(a, seq[i]))
    IN  F[Len(seq)]

Min(S) == CHOOSE x \in S : \A y \in S : x <= y

\* the elements of a finite set of integers in ascending order
Sorted(S) ==
    LET F[T \in SUBSET S] == IF T = {} THEN << >> ELSE <<Min(T)>> \o F[T \ {Min(T)}]
    IN  F[S]

SelectIdx(n, Test(_)) == SelectSeq([i \in 1..n |-> i], Test)

\* the indices of js ordered by the completion order ord
OrderBy(js, ord) ==
    LET S == {js[k] : k \in 1..Len(js)}
        F[T \in SUBSET S] ==
            IF T = {} THEN << >>
            ELSE LET m == CHOOSE x \in T : \A y \in T : ord[x] <= ord[y]
                 IN  <<m>> \o F[T \ {m}]
    IN  F[S]

Perms(n) == {f \in [1..n -> 1..n] : \A i, j \in 1..n : f[i] = f[j] => i = j}

SubsetsUpTo(X, k) ==
    LET F[i \in 0..k] == IF i = 0 THEN {{}}
                         ELSE F[i - 1] \cup {s \cup {x} : s \in F[i - 1], x \in X}
    IN  F[k]

(* --------------------------- the event log ----------------------------- *)
\* one entry per store operation of the current run, in issue order
\* role "new": the hash is the one the path now has; role "old": the hash is the one
\* the path had and no longer references
Ev(op, role, h, p, ok) == [op |-> op, role |-> role, hash |-> h, path |-> p, ok |-> ok]

Logged(w, op, role, h, p, ok) == [w EXCEPT !.log = Append(@, Ev(op, role, h, p, ok))]

(* ----------------------- local catalogue (models.rs) ------------------- *)
NoRow == [present |-> FALSE, file_hash |-> NoHash, modified |-> 0,
          uploaded |-> NoTime, pending_delete |-> FALSE]

GlacierFile(p, h, m, u, pd) ==
    [file_path |-> p, file_hash |-> h, modified |-> m, uploaded |-> u, pending_delete |-> pd]

RowOf(f) == [present |-> TRUE, file_hash |-> f.file_hash, modified |-> f.modified,
             uploaded |-> f.uploaded, pending_delete |-> f.pending_delete]

FileOf(g, p) == GlacierFile(p, g[p].file_hash, g[p].modified, g[p].uploaded, g[p].pending_delete)

\* GlacierFile::insert: INSERT ... ON CONFLICT (file_path) DO UPDATE
GlacierFile_insert(w, f) ==
    Logged([w EXCEPT !.g[f.file_path] = RowOf(f)], "gins", "new", f.file_hash, f.file_path, TRUE)

\* GlacierFile::update: UPDATE ... WHERE file_path = self.file_path
GlacierFile_update(w, f) ==
    Logged([w EXCEPT !.g[f.file_path] = IF @.present THEN RowOf(f) ELSE @],
           "gupd", "new", f.file_hash, f.file_path, TRUE)

\* GlacierFile::delete
GlacierFile_delete(w, f) ==
    Logged([w EXCEPT !.g[f.file_path] = NoRow], "gdel", "old", f.file_hash, f.file_path, TRUE)

(* ----------------------- diff queries (lib.rs) ------------------------- *)
\* local rows without a glacier row
\* every local row, joined or not
get_new_filesMut(l, g) == Sorted({p \in Paths : l[p] # NoTime})

get_new_files(l, g) == Sorted({p \in Paths : l[p] # NoTime /\ ~g[p].present})

get_changed_filesMut(l, g) ==
    Sorted({p \in Paths : l[p] # NoTime /\ g[p].present /\ g[p].modified <= l[p]})

\* local rows joined to a glacier row with glacier.modified < local.modified
get_changed_files(l, g) ==
    Sorted({p \in Paths : l[p] # NoTime /\ g[p].present /\ g[p].modified < l[p]})

\* only the rows already marked pending_delete count as missing
get_missing_filesMut(l, g) ==
    Sorted({p \in Paths : g[p].present /\ l[p] = NoTime /\ g[p].pending_delete})

\* glacier rows without a local row
get_missing_files(l, g) == Sorted({p \in Paths : g[p].present /\ l[p] = NoTime})

glacier_state_is_empty(g) == \A p \in Paths : ~g[p].present

\* glacier rows whose upload never completed (uploaded IS NULL)
get_pending_upload_files(g) ==
    Sorted({p \in Paths : g[p].present /\ g[p].uploaded = NoTime /\ ~g[p].pending_delete})

\* glacier rows modified after their last upload
get_pending_update_files(g) ==
    Sorted({p \in Paths : g[p].present /\ g[p].uploaded # NoTime
                          /\ g[p].uploaded < g[p].modified /\ ~g[p].pending_delete})

\* glacier rows marked pending_delete
get_pending_delete_files(g) == Sorted({p \in Paths : g[p].present /\ g[p].pending_delete})

(* -------------------- metadata store (dynamodb.rs) --------------------- *)
NoItem == [present |-> FALSE, file_names |-> {}, expiration |-> 0]

HashTracker(h, e, names) == [hash |-> h, expiration |-> e, file_names |-> names]

has_files(t) == Cardinality(t.file_names) > 0

add_file_name(t, p) == [t EXCEPT !.file_names = @ \cup {p}]

del_file_name(t, p) == [t EXCEPT !.file_names = @ \ {p}]

is_expired(t, now) == t.expiration < now

\* HashTracker::import strips the sentinel
import(h, e, names) == del_file_name(HashTracker(h, e, names), NONE_STR)

\* the sentinel written with every set of paths
PutFileNamesMut(t) == t.file_names \cup {NONE_STR}

\* the attribute written by put: the sentinel stands for the empty set
PutFileNames(t) == IF has_files(t) THEN t.file_names ELSE {NONE_STR}

\* HashTracker::get; a missing item and a remote error both give no tracker
HashTracker_get(d, h, fail) ==
    IF fail \/ ~d[h].present
    THEN [ok |-> FALSE, t |-> HashTracker(h, UNIX_EPOCH, {})]
    ELSE [ok |-> TRUE,
          t  |-> del_file_name(import(h, d[h].expiration, d[h].file_names), NONE_STR)]

\* HashTracker::get issued on behalf of path p
Lookup(w, role, h, p, ok) == Logged(w, "dget", role, h, p, ok)

\* HashTracker::put issued on behalf of path p
HashTracker_put(w, role, t, p, fail) ==
    Logged([w EXCEPT !.d[t.hash] =
                IF fail THEN @
                ELSE [present |-> TRUE, file_names |-> PutFileNames(t),
                      expiration |-> t.expiration]],
           "dput", role, t.hash, p, ~fail)

\* HashTracker::delete issued on behalf of path p
HashTracker_delete(w, role, t, p, fail) ==
    Logged([w EXCEPT !.d[t.hash] = IF fail THEN @ ELSE NoItem], "ddel", role, t.hash, p, ~fail)

(* ------------------------ object store (s3.rs) ------------------------- *)
\* a key's versions, oldest first: "obj" an object version, "dm" a delete marker
s3_put(w, role, h, p, fail) ==
    Logged([w EXCEPT !.s[h] = IF fail THEN @ ELSE Append(@, "obj")], "s3put", role, h, p, ~fail)

\* delete without a version id: the bucket is versioned, a delete marker is added
s3_delete(w, role, h, p, fail) ==
    Logged([w EXCEPT !.s[h] = IF fail THEN @ ELSE Append(@, "dm")], "s3del", role, h, p, ~fail)

StripMarkers(vs) ==
    LET F[i \in 0..Len(vs)] ==
            IF i = 0 THEN 0 ELSE IF vs[i] = "dm" THEN F[i - 1] ELSE i
    IN  SubSeq(vs, 1, F[Len(vs)])

\* undelete: the latest delete markers of the key are removed
s3_undelete(w, role, h, p, fail) ==
    Logged([w EXCEPT !.s[h] = IF fail THEN @ ELSE StripMarkers(@)], "s3undel", role, h, p, ~fail)

(* ------------------- complete_put (backup.rs 175-558) ------------------ *)
\* checksums::hash_file of the file now at path p
hash_file(fsys, p) == fsys[p].hash

\* Utc::now().checked_add_signed(Duration::days(args.min_storage_duration))
NewExpiration(now) == now + min_storage_duration

JobKindMut(res, f, now) ==
    IF res.ok
    THEN IF has_files(res.t)
         THEN IF f.file_hash # NoHash THEN "upd" ELSE "new"
         ELSE IF res.t.expiration < now THEN "undelete" ELSE "reupload"
    ELSE "upload"

\* lines 232-338: which job organizer a file is sorted into
JobKind(res, f, now) ==
    IF res.ok
    THEN IF has_files(res.t)
         THEN IF f.file_hash # NoHash THEN "upd" ELSE "new"
         ELSE IF res.t.expiration < now THEN "reupload" ELSE "undelete"
    ELSE "upload"

\* lines 247, 264: the tracker handed to put when the hash has active paths
\* (hash_tracker as fetched; the path was added to the clone h_t only)
NoUploadTracker(res, f) == res.t

JobTrackerMut(res, f, new_hash, now) ==
    IF res.ok
    THEN add_file_name(res.t, f.file_path)
    ELSE add_file_name(HashTracker(new_hash, NewExpiration(now), {}), f.file_path)

\* lines 277-310, 315-323: the tracker of the HashJob
JobTracker(res, f, new_hash, now) ==
    IF res.ok
    THEN IF res.t.expiration < now
         THEN add_file_name([res.t EXCEPT !.expiration = NewExpiration(now)], f.file_path)
         ELSE add_file_name(res.t, f.file_path)
    ELSE add_file_name(HashTracker(new_hash, NewExpiration(now), {}), f.file_path)

\* lines 250-251, 304-305, 324-325: the in-memory file after sorting
SortedFile(f, new_hash) == [f EXCEPT !.file_hash = new_hash, !.uploaded = f.modified]

\* lines 183-338
Classify(d, files, fsys, F, now) ==
    [i \in 1..Len(files) |->
        LET f        == files[i]
            new_hash == hash_file(fsys, f.file_path)
            res      == HashTracker_get(d, new_hash, <<"get", i>> \in F)
        IN  [new_hash |-> new_hash,
             kind     |-> JobKind(res, f, now),
             orig     |-> NoUploadTracker(res, f),
             tracker  |-> JobTracker(res, f, new_hash, now),
             old_hash |-> f.file_hash,
             file     |-> SortedFile(f, new_hash)]]

ObjectStepOkMut(F, key) == TRUE

\* lines 518-527 (and 490-502, 543-552): is the job committed after its object step
ObjectStepOk(F, key) == key \notin F

\* the jobs of one organizer, in file order
JobsOf(files, c, kind) == SelectIdx(Len(files), LAMBDA i : c[i].kind = kind)

AddFailures(w, k) == [w EXCEPT !.failures = @ + k]

\* lines 184-198: GET HASH_TRACKERS
PutLookups(w, files, c, F) ==
    Fold(LAMBDA a, i : Lookup(a, "new", c[i].new_hash, files[i].file_path, <<"get", i>> \notin F),
         w, [i \in 1..Len(files) |-> i])

\* NO UPLOAD LOCAL UPDATE, lines 341-455
NoUploadLocalUpdate(w1, files, c, F, now) ==
    LET P(i)  == files[i].file_path
        upd   == JobsOf(files, c, "upd")
        updOk == SelectSeq(upd, LAMBDA i : <<"put1", i>> \notin F)
    IN
    \* lines 341-365: update new hash trackers
    Let(Fold(LAMBDA a, i : HashTracker_put(a, "new", c[i].orig, P(i), <<"put1", i>> \in F),
             w1, upd),
    LAMBDA wC :
    LET \* lines 367-400: get old hash trackers
        res2  == [i \in {upd[k] : k \in 1..Len(upd)} |->
                     HashTracker_get(wC.d, c[i].old_hash, <<"get2", i>> \in F)]
        old   == [i \in DOMAIN res2 |-> del_file_name(res2[i].t, P(i))]
        dOk   == SelectSeq(updOk, LAMBDA i : res2[i].ok)
        keep  == SelectSeq(dOk, LAMBDA i : has_files(old[i]))
        del   == SelectSeq(dOk, LAMBDA i : ~has_files(old[i]))
        eOk   == SelectSeq(del, LAMBDA i : ObjectStepOk(F, <<"s3", i>>))
        eExp  == SelectSeq(eOk, LAMBDA i : old[i].expiration < now)
        eKeep == SelectSeq(eOk, LAMBDA i : ~(old[i].expiration < now))
        fOk   == SelectSeq(eExp, LAMBDA i : <<"dyn", i>> \notin F)
        failed == (Len(upd) - Len(updOk)) + (Len(updOk) - Len(dOk)) + (Len(del) - Len(eOk))
                  + (Len(eExp) - Len(fOk))
    IN
    Let(Fold(LAMBDA a, i : Lookup(a, "old", c[i].old_hash, P(i), <<"get2", i>> \notin F),
             wC, updOk),
    LAMBDA wD :
    \* lines 405-429: delete the object of an emptied old hash
    Let(Fold(LAMBDA a, i : s3_delete(a, "old", c[i].old_hash, P(i), <<"s3", i>> \in F), wD, del),
    LAMBDA wE :
    \* lines 433-450: delete the expired old tracker
    Let(Fold(LAMBDA a, i : HashTracker_delete(a, "old", old[i], P(i), <<"dyn", i>> \in F),
             wE, eExp),
    LAMBDA wF :
    \* lines 452-455: update local database entry
    AddFailures(Fold(LAMBDA a, i : GlacierFile_update(a, c[i].file), wF, keep \o eKeep \o fOk),
                failed)))))

\* NO UPLOAD LOCAL NEW, lines 457-477
NoUploadLocalNew(w, files, c, F) ==
    LET new   == JobsOf(files, c, "new")
        newOk == SelectSeq(new, LAMBDA i : <<"put1", i>> \notin F)
    IN
    Let(Fold(LAMBDA a, i : HashTracker_put(a, "new", c[i].orig, files[i].file_path,
                                           <<"put1", i>> \in F),
             w, new),
    LAMBDA wH :
    AddFailures(Fold(LAMBDA a, i : GlacierFile_update(a, c[i].file), wH, newOk),
                Len(new) - Len(newOk)))

\* a batch in which one failed call ends the commits of every job
CommitJobsMut(w, jobs, c, F, ord) ==
    IF F # {} THEN w
    ELSE Let(Fold(LAMBDA a, i : GlacierFile_update(a, c[i].file), w, jobs),
         LAMBDA wg :
         Fold(LAMBDA a, i : HashTracker_put(a, "new", c[i].tracker, c[i].file.file_path,
                                            <<"dyn", i>> \in F),
              wg, OrderBy(jobs, ord)))

\* lines 492-493, 520-521, 545-546: every job whose object step succeeded updates
\* its glacier row inside the loop; the tracker puts pushed in the loop only run
\* when the FuturesUnordered is collected after it, and their results are dropped
CommitJobs(w, jobs, c, F, ord) ==
    Let(Fold(LAMBDA a, i : GlacierFile_update(a, c[i].file), w, jobs),
    LAMBDA wg :
    Fold(LAMBDA a, i : HashTracker_put(a, "new", c[i].tracker, c[i].file.file_path,
                                       <<"dyn", i>> \in F),
         wg, OrderBy(jobs, ord)))

\* no job is handed on after a failed undelete
UndeleteFailedMut(files, c, F) == << >>

\* the undelete jobs whose undelete failed: they are pushed to s3_upload (lines 495-501)
UndeleteFailed(files, c, F) ==
    SelectSeq(JobsOf(files, c, "undelete"), LAMBDA i : ~ObjectStepOk(F, <<"s3", i>>))

\* a failed undelete counted as a failure and handed on to the upload all the same
UndeleteMut(w, files, c, F, ord) ==
    LET und   == JobsOf(files, c, "undelete")
        undOk == SelectSeq(und, LAMBDA i : ObjectStepOk(F, <<"s3", i>>))
    IN
    Let(Fold(LAMBDA a, i : s3_undelete(a, "new", c[i].new_hash, files[i].file_path,
                                       <<"s3", i>> \in F),
             w, und),
    LAMBDA wI : AddFailures(CommitJobs(wI, undOk, c, F, ord), Len(und) - Len(undOk)))

\* UNDELETE, lines 479-505
Undelete(w, files, c, F, ord) ==
    LET und   == JobsOf(files, c, "undelete")
        undOk == SelectSeq(und, LAMBDA i : ObjectStepOk(F, <<"s3", i>>))
    IN
    Let(Fold(LAMBDA a, i : s3_undelete(a, "new", c[i].new_hash, files[i].file_path,
                                       <<"s3", i>> \in F),
             w, und),
    LAMBDA wI : CommitJobs(wI, undOk, c, F, ord))

\* UPLOAD, lines 507-530: first the uploads, then the failed undeletes
Upload(w, files, c, F, ord) ==
    LET P(i)   == files[i].file_path
        upl    == JobsOf(files, c, "upload")
        undErr == UndeleteFailed(files, c, F)
        uplOk  == SelectSeq(upl, LAMBDA i : ObjectStepOk(F, <<"s3", i>>))
                  \o SelectSeq(undErr, LAMBDA i : ObjectStepOk(F, <<"s3fb", i>>))
    IN
    Let(Fold(LAMBDA a, i : s3_put(a, "new", c[i].new_hash, P(i), <<"s3", i>> \in F), w, upl),
    LAMBDA wJ0 :
    Let(Fold(LAMBDA a, i : s3_put(a, "new", c[i].new_hash, P(i), <<"s3fb", i>> \in F),
             wJ0, undErr),
    LAMBDA wJ1 :
    AddFailures(CommitJobs(wJ1, uplOk, c, F, ord), Len(upl) + Len(undErr) - Len(uplOk))))

\* REUPLOAD, lines 532-555
Reupload(w, files, c, F, ord) ==
    LET reu   == JobsOf(files, c, "reupload")
        reuOk == SelectSeq(reu, LAMBDA i : ObjectStepOk(F, <<"s3", i>>))
    IN
    Let(Fold(LAMBDA a, i : s3_put(a, "new", c[i].new_hash, files[i].file_path,
                                  <<"s3", i>> \in F),
             w, reu),
    LAMBDA wK : AddFailures(CommitJobs(wK, reuOk, c, F, ord), Len(reu) - Len(reuOk)))

complete_put(w0, files, fsys, F, ord, now) ==
    LET c == Classify(w0.d, files, fsys, F, now) IN
    Let(PutLookups(w0, files, c, F),                 LAMBDA w1 :
    Let(NoUploadLocalUpdate(w1, files, c, F, now),   LAMBDA w2 :
    Let(NoUploadLocalNew(w2, files, c, F),           LAMBDA w3 :
    Let(Undelete(w3, files, c, F, ord),              LAMBDA w4 :
    Let(Upload(w4, files, c, F, ord),                LAMBDA w5 :
    Reupload(w5, files, c, F, ord))))))

(* ----------------- complete_delete (backup.rs 560-709) ----------------- *)
DeletesTrackerMut(t, now) == ~has_files(t)

\* lines 658-671: the tracker of a deleted object is removed from the metadata store
\* only when it has no paths and is expired, otherwise it is put
DeletesTracker(t, now) == ~has_files(t) /\ t.expiration < now

\* lines 575-628: rows without a hash are deleted on the spot, the others looked up
DeleteLookups(w, files, F) ==
    Fold(LAMBDA a, i : IF files[i].file_hash = NoHash
                       THEN GlacierFile_delete(a, files[i])
                       ELSE Lookup(a, "old", files[i].file_hash, files[i].file_path,
                                   <<"get", i>> \notin F),
         w, [i \in 1..Len(files) |-> i])

\* the fetched tracker of a file as it is, the path not removed
DeleteJobsMut(d, files, F) ==
    [i \in {j \in 1..Len(files) : files[j].file_hash # NoHash} |->
        LET res == HashTracker_get(d, files[i].file_hash, <<"get", i>> \in F)
        IN  [ok |-> res.ok, t |-> res.t]]

\* line 593: the fetched tracker of a file, its path removed
DeleteJobs(d, files, F) ==
    [i \in {j \in 1..Len(files) : files[j].file_hash # NoHash} |->
        LET res == HashTracker_get(d, files[i].file_hash, <<"get", i>> \in F)
        IN  [ok |-> res.ok, t |-> del_file_name(res.t, files[i].file_path)]]

\* NO DELETE, lines 630-640
NoDelete(w, files, jobs, F, ord) ==
    LET nodel == SelectSeq(SelectIdx(Len(files), LAMBDA i : files[i].file_hash # NoHash),
                           LAMBDA i : jobs[i].ok /\ has_files(jobs[i].t))
    IN
    Let(Fold(LAMBDA a, i : GlacierFile_delete(a, files[i]), w, nodel),
    LAMBDA wN :
    Fold(LAMBDA a, i : HashTracker_put(a, "old", jobs[i].t, files[i].file_path,
                                       <<"dyn", i>> \in F),
         wN, OrderBy(nodel, ord)))

\* DELETE NORMALLY, lines 642-683
DeleteNormally(w, files, jobs, F, ord, now) ==
    LET P(i) == files[i].file_path
        sdel == SelectSeq(SelectIdx(Len(files), LAMBDA i : files[i].file_hash # NoHash),
                          LAMBDA i : jobs[i].ok /\ ~has_files(jobs[i].t))
        sOk  == SelectSeq(sdel, LAMBDA i : ObjectStepOk(F, <<"s3", i>>))
        gone == SelectSeq(sOk, LAMBDA i : DeletesTracker(jobs[i].t, now))
        kept == SelectSeq(sOk, LAMBDA i : ~DeletesTracker(jobs[i].t, now))
    IN
    Let(Fold(LAMBDA a, i : s3_delete(a, "old", files[i].file_hash, P(i), <<"s3", i>> \in F),
             w, sdel),
    LAMBDA wS0 :
    Let(Fold(LAMBDA a, i : GlacierFile_delete(a, files[i]), wS0, sOk),
    LAMBDA wS1 :
    Let(Fold(LAMBDA a, i : HashTracker_delete(a, "old", jobs[i].t, P(i), <<"dyn", i>> \in F),
             wS1, OrderBy(gone, ord)),
    LAMBDA wS2 :
    AddFailures(Fold(LAMBDA a, i : HashTracker_put(a, "old", jobs[i].t, P(i),
                                                   <<"dyn", i>> \in F),
                     wS2, OrderBy(kept, ord)),
                Len(sdel) - Len(sOk)))))

\* DELETE WITH DB ERRORS, lines 685-706
DeleteWithDbErrors(w, files, jobs, F) ==
    LET serr == SelectSeq(SelectIdx(Len(files), LAMBDA i : files[i].file_hash # NoHash),
                          LAMBDA i : ~jobs[i].ok)
        xOk  == SelectSeq(serr, LAMBDA i : ObjectStepOk(F, <<"s3", i>>))
    IN
    Let(Fold(LAMBDA a, i : s3_delete(a, "old", files[i].file_hash, files[i].file_path,
                                     <<"s3", i>> \in F),
             w, serr),
    LAMBDA wX :
    AddFailures(Fold(LAMBDA a, i : GlacierFile_delete(a, files[i]), wX, xOk),
                Len(serr) - Len(xOk)))

complete_delete(w0, files, F, ord, now) ==
    LET jobs == DeleteJobs(w0.d, files, F) IN
    Let(DeleteLookups(w0, files, F),                     LAMBDA w1 :
    Let(NoDelete(w1, files, jobs, F, ord),               LAMBDA w2 :
    Let(DeleteNormally(w2, files, jobs, F, ord, now),    LAMBDA w3 :
    DeleteWithDbErrors(w3, files, jobs, F))))

(* --------------------- the phases (backup.rs 47-153) ------------------- *)
\* the remote calls that can fail for the i-th file of a phase
FaultKeys(n) == {"get", "put1", "get2", "s3", "s3fb", "dyn"} \X (1..n)

NumFailed(lg) == Cardinality({k \in 1..Len(lg) : ~lg[k].ok})

FilesOf(g, ps) == [k \in 1..Len(ps) |-> FileOf(g, ps[k])]

fix_pending_uploads(w, fsys, F, ord, now) ==
    Let(FilesOf(w.g, get_pending_upload_files(w.g)),
        LAMBDA files : complete_put(w, files, fsys, F, ord, now))

fix_pending_updates(w, fsys, F, ord, now) ==
    Let(FilesOf(w.g, get_pending_update_files(w.g)),
        LAMBDA files : complete_put(w, files, fsys, F, ord, now))

fix_pending_deletes(w, F, ord, now) ==
    Let(FilesOf(w.g, get_pending_delete_files(w.g)),
        LAMBDA files : complete_delete(w, files, F, ord, now))

\* rows inserted as if already uploaded
NewFilesMut(l, ps) ==
    [k \in 1..Len(ps) |-> GlacierFile(ps[k], NoHash, l[ps[k]], l[ps[k]], FALSE)]

\* the rows upload_new_files inserts: the local row, file_hash and uploaded null
NewFiles(l, ps) == [k \in 1..Len(ps) |-> GlacierFile(ps[k], NoHash, l[ps[k]], NoTime, FALSE)]

\* lines 95-104: copy from local_state to glacier_state, leaving uploaded null
upload_new_files(w, l, fsys, F, ord, now) ==
    Let(get_new_files(l, w.g), LAMBDA ps :
    Let(NewFiles(l, ps), LAMBDA files :
    Let(Fold(LAMBDA a, f : GlacierFile_insert(a, f), w, files), LAMBDA w1 :
    complete_put(w1, files, fsys, F, ord, now))))

\* the rows update_changed_files hands on: the glacier row, modified as on disk
ChangedFiles(l, g, ps) == [k \in 1..Len(ps) |-> [FileOf(g, ps[k]) EXCEPT !.modified = l[ps[k]]]]

\* lines 120-129: the glacier row with the local modification time, uploaded as it was
update_changed_files(w, l, fsys, F, ord, now) ==
    Let(get_changed_files(l, w.g), LAMBDA ps :
    Let(ChangedFiles(l, w.g, ps), LAMBDA files :
    complete_put(w, files, fsys, F, ord, now)))

\* the rows delete_missing_files hands on: the glacier row, marked pending_delete
MissingFiles(g, ps) == [k \in 1..Len(ps) |-> [FileOf(g, ps[k]) EXCEPT !.pending_delete = TRUE]]

\* lines 144-148: set pending_delete to TRUE
delete_missing_files(w, l, F, ord, now) ==
    Let(get_missing_files(l, w.g), LAMBDA ps :
    Let(MissingFiles(w.g, ps), LAMBDA files :
    Let(Fold(LAMBDA a, f : GlacierFile_update(a, f), w, files), LAMBDA w1 :
    complete_delete(w1, files, F, ord, now))))

\* restore.rs 39-78: the two iterator adaptors (.iter().map(..)) are dropped without
\* being consumed, so no closure runs and no glacier row is inserted
db_from_aws(g, d, s) == g

\* a regex, taken as the set of paths it matches
Regexes == SUBSET Paths

\* backup::load with an exclude list: a regular file is skipped on any match
load_filter(fsys, filter) ==
    [p \in Paths |-> IF fsys[p].hash # NoHash /\ ~(\E k \in 1..Len(filter) : p \in filter[k])
                     THEN fsys[p].mtime ELSE NoTime]

\* backup::load: one local_state row per regular file under target_dir
load(fsys) == [p \in Paths |-> IF fsys[p].hash # NoHash THEN fsys[p].mtime ELSE NoTime]

(* ------------------------------- state --------------------------------- *)
VARIABLES fs, local, glacier, dynamo, s3, now, phase, dry, log, failures, runs, pre, prev,
          faulted,
          \* the input and the result of an operation studied on its own
          arg, ret

vars == <<fs, local, glacier, dynamo, s3, now, phase, dry, log, failures, runs, pre, prev,
         faulted, arg, ret>>

\* no operation is studied on its own
Nil == [op |-> "none"]

NoFile == [hash |-> NoHash, mtime |-> 0]

\* what a phase starts from; its own events are appended to the run's log by Ran
World == [g |-> glacier, d |-> dynamo, s |-> s3, log |-> << >>, failures |-> failures]

\* the events of one phase, each marked with the phase that issued it
InPhase(lg, ph) ==
    [k \in 1..Len(lg) |->
        [op |-> lg[k].op, role |-> lg[k].role, hash |-> lg[k].hash, path |-> lg[k].path,
         ok |-> lg[k].ok, phase |-> ph]]

Stores == [g |-> glacier, d |-> dynamo, s |-> s3, l |-> local]

NoStores == [g |-> [p \in Paths |-> NoRow],
             d |-> [h \in Hashes |-> NoItem],
             s |-> [h \in Hashes |-> << >>],
             l |-> [p \in Paths |-> NoTime]]

NoPrev == [valid |-> FALSE, failures |-> 0]

Init ==
    /\ fs = [p \in Paths |-> NoFile]
    /\ local = [p \in Paths |-> NoTime]
    /\ glacier = [p \in Paths |-> NoRow]
    /\ dynamo = [h \in Hashes |-> NoItem]
    /\ s3 = [h \in Hashes |-> << >>]
    /\ now = 0
    /\ phase = "idle"
    /\ dry = FALSE
    /\ log = << >>
    /\ failures = 0
    /\ runs = 0
    /\ pre = NoStores
    /\ prev = NoPrev
    /\ faulted = 0
    /\ arg = Nil /\ ret = Nil

Resting == phase \in {"idle", "done"}

(* ----------------------------- environment ----------------------------- *)
\* once the tree is edited the record of the last run (its summary, its log and
\* the stores it started from) no longer describes the tree
Forgotten ==
    /\ phase' = "idle" /\ dry' = FALSE /\ log' = << >> /\ failures' = 0
    /\ pre' = NoStores /\ prev' = NoPrev

\* the latest modification time the tree or the catalogue has seen
LastMtime ==
    LET S == {fs[p].mtime : p \in Paths} \cup {glacier[p].modified : p \in Paths}
    IN  CHOOSE x \in S : \A y \in S : y <= x

\* a file is written: its modification time is later than every one seen so far
\* (modification times are far finer than the days the expirations count)
WriteFile(p, h) ==
    /\ Resting /\ LastMtime < MaxMtime
    /\ fs' = [fs EXCEPT ![p] = [hash |-> h, mtime |-> LastMtime + 1]]
    /\ Forgotten
    /\ UNCHANGED <<local, glacier, dynamo, s3, now, runs, faulted, arg, ret>>

DeleteFile(p) ==
    /\ Resting /\ fs[p].hash # NoHash
    /\ fs' = [fs EXCEPT ![p] = NoFile]
    /\ Forgotten
    /\ UNCHANGED <<local, glacier, dynamo, s3, now, runs, faulted, arg, ret>>

\* a day passes; the summary of the last run stands, while its log and the stores
\* it started from are those of an earlier day and are dropped
Tick ==
    /\ Resting /\ now < MaxTime
    /\ now' = now + 1
    /\ log' = << >> /\ pre' = NoStores
    /\ UNCHANGED <<fs, local, glacier, dynamo, s3, phase, dry, failures, runs, prev, faulted, arg, ret>>

(* ------------------------- main.rs: backup ----------------------------- *)
\* main.rs 171-183: clear local_state, load, bootstrap when glacier_state is empty
StartRun(d) ==
    /\ Resting /\ runs < MaxRuns
    /\ runs' = runs + 1
    /\ dry' = d
    /\ local' = load(fs)
    /\ glacier' = IF glacier_state_is_empty(glacier) /\ ~d
                  THEN db_from_aws(glacier, dynamo, s3) ELSE glacier
    /\ log' = << >>
    /\ failures' = 0
    /\ pre' = Stores
    /\ prev' = IF phase = "done" /\ ~dry
               THEN [valid |-> TRUE, failures |-> failures]
               ELSE NoPrev
    /\ phase' = "pending_uploads"
    /\ UNCHANGED <<fs, dynamo, s3, now, faulted, arg, ret>>

\* a phase ran and left the world r; nxt is the next phase
Ran(r, nxt) ==
    /\ faulted + NumFailed(r.log) <= MaxFaults
    /\ faulted' = faulted + NumFailed(r.log)
    /\ glacier' = r.g /\ dynamo' = r.d /\ s3' = r.s
    /\ log' = log \o InPhase(r.log, phase)
    /\ failures' = r.failures
    /\ phase' = nxt
    /\ UNCHANGED <<fs, local, now, dry, runs, pre, prev, arg, ret>>

\* a dry run that drops the catalogue rows of the missing files
SkippedMut(nxt) ==
    /\ phase' = nxt
    /\ glacier' = [p \in Paths |-> IF local[p] = NoTime THEN NoRow ELSE glacier[p]]
    /\ UNCHANGED <<fs, local, dynamo, s3, now, dry, log, failures, runs, pre, prev, faulted, arg, ret>>

\* every phase returns (length, 0) at once in dry-run mode
Skipped(nxt) ==
    /\ phase' = nxt
    /\ UNCHANGED <<fs, local, glacier, dynamo, s3, now, dry, log, failures, runs, pre, prev, faulted, arg, ret>>

AllOnDisk(ps) == \A k \in 1..Len(ps) : fs[ps[k]].hash # NoHash

FixPendingUploads ==
    /\ phase = "pending_uploads"
    /\ LET ps == get_pending_upload_files(glacier) IN
       IF dry THEN Skipped("pending_updates")
       ELSE /\ AllOnDisk(ps)
            /\ \E F \in SubsetsUpTo(FaultKeys(Len(ps)), MaxFaults), ord \in Perms(NumPaths) :
                  \E r \in {fix_pending_uploads(World, fs, F, ord, now)} : Ran(r, "pending_updates")

FixPendingUpdates ==
    /\ phase = "pending_updates"
    /\ LET ps == get_pending_update_files(glacier) IN
       IF dry THEN Skipped("pending_deletes")
       ELSE /\ AllOnDisk(ps)
            /\ \E F \in SubsetsUpTo(FaultKeys(Len(ps)), MaxFaults), ord \in Perms(NumPaths) :
                  \E r \in {fix_pending_updates(World, fs, F, ord, now)} : Ran(r, "pending_deletes")

\* hash_file unwraps File::open: a pending file that is gone from disk ends the process
HashPanic ==
    /\ ~dry
    /\ \/ phase = "pending_uploads" /\ ~AllOnDisk(get_pending_upload_files(glacier))
       \/ phase = "pending_updates" /\ ~AllOnDisk(get_pending_update_files(glacier))
    /\ Forgotten
    /\ UNCHANGED <<fs, local, glacier, dynamo, s3, now, runs, faulted, arg, ret>>

FixPendingDeletes ==
    /\ phase = "pending_deletes"
    /\ LET n == Len(get_pending_delete_files(glacier)) IN
       IF dry THEN Skipped("new")
       ELSE \E F \in SubsetsUpTo(FaultKeys(n), MaxFaults), ord \in Perms(NumPaths) :
               \E r \in {fix_pending_deletes(World, F, ord, now)} : Ran(r, "new")

UploadNewFiles ==
    /\ phase = "new"
    /\ LET n == Len(get_new_files(local, glacier)) IN
       IF dry THEN Skipped("changed")
       ELSE \E F \in SubsetsUpTo(FaultKeys(n), MaxFaults), ord \in Perms(NumPaths) :
               \E r \in {upload_new_files(World, local, fs, F, ord, now)} : Ran(r, "changed")

UpdateChangedFiles ==
    /\ phase = "changed"
    /\ LET n == Len(get_changed_files(local, glacier)) IN
       IF dry THEN Skipped("missing")
       ELSE \E F \in SubsetsUpTo(FaultKeys(n), MaxFaults), ord \in Perms(NumPaths) :
               \E r \in {update_changed_files(World, local, fs, F, ord, now)} : Ran(r, "missing")

DeleteMissingFiles ==
    /\ phase = "missing"
    /\ LET n == Len(get_missing_files(local, glacier)) IN
       IF dry THEN Skipped("finish")
       ELSE \E F \in SubsetsUpTo(FaultKeys(n), MaxFaults), ord \in Perms(NumPaths) :
               \E r \in {delete_missing_files(World, local, F, ord, now)} : Ran(r, "finish")

\* main.rs 188-208: clear local_state, print the summary
FinishRun ==
    /\ phase = "finish"
    /\ local' = [p \in Paths |-> NoTime]
    /\ phase' = "done"
    /\ UNCHANGED <<fs, glacier, dynamo, s3, now, dry, log, failures, runs, pre, prev, faulted, arg, ret>>

Next ==
    \/ \E p \in Paths, h \in Hashes : WriteFile(p, h)
    \/ \E p \in Paths : DeleteFile(p)
    \/ Tick
    \/ \E d \in BOOLEAN : StartRun(d)
    \/ FixPendingUploads
    \/ FixPendingUpdates
    \/ HashPanic
    \/ FixPendingDeletes
    \/ UploadNewFiles
    \/ UpdateChangedFiles
    \/ DeleteMissingFiles
    \/ FinishRun

Spec == Init /\ [][Next]_vars

(* ------------------ backup::backup: one whole clean run ---------------- *)
\* the six phases in order, no remote call failing; ords[k] is the completion
\* order of the concurrent metadata writes of phase k
backup_with(st, l, fsys, ords, t) ==
    LET w0 == [g |-> IF glacier_state_is_empty(st.g) THEN db_from_aws(st.g, st.d, st.s)
                     ELSE st.g,
               d |-> st.d, s |-> st.s, log |-> << >>, failures |-> 0]
    IN
    Let(fix_pending_uploads(w0, fsys, {}, ords[1], t),      LAMBDA w1 :
    Let(fix_pending_updates(w1, fsys, {}, ords[2], t),      LAMBDA w2 :
    Let(fix_pending_deletes(w2, {}, ords[3], t),            LAMBDA w3 :
    Let(upload_new_files(w3, l, fsys, {}, ords[4], t),      LAMBDA w4 :
    Let(update_changed_files(w4, l, fsys, {}, ords[5], t),  LAMBDA w5 :
    delete_missing_files(w5, l, {}, ords[6], t))))))

\* the run of a tree scanned without a filter
backup(st, fsys, ords, t) == backup_with(st, load(fsys), fsys, ords, t)

(* =========================== the claims ================================ *)
ObjOps == {"s3put", "s3del", "s3undel"}

MetaWrites == {"dput", "ddel"}

\* the paths of a stored item, as get returns them
PathsOf(item) == item.file_names \ {NONE_STR}

IsCurrent(vs) == Len(vs) > 0 /\ vs[Len(vs)] = "obj"

(* ------------------------- restore.rs: restore ------------------------- *)
\* a path of the restored tree: whether a file was created there, and its content
\* (NoHash: the file is empty)
NotRestored == [made |-> FALSE, content |-> NoHash]

\* s3.rs 345-383: nothing for a tracker without files; else the first file is created
\* empty (File::create, before cli.dry_run is read), and unless this is a dry run the
\* current version of the object is written into it and copied to the other files; a
\* key whose current version is a delete marker (or that has no version) is an error,
\* returned after the first file was created
get_object(tree, s, h, names, pick, dry_run) ==
    IF names = {} THEN tree
    ELSE LET first == CHOOSE p \in names : \A q \in names : pick[p] <= pick[q] IN
         IF ~dry_run /\ IsCurrent(s[h])
         THEN [p \in Paths |-> IF p \in names THEN [made |-> TRUE, content |-> h]
                                ELSE tree[p]]
         ELSE [tree EXCEPT ![first] = [made |-> TRUE, content |-> NoHash]]

\* s3.rs 362-367: the GetObject calls of a restore, one per tracker with files in the
\* order of the scan, none in a dry run
downloads(d, ord, dry_run) ==
    IF dry_run THEN << >>
    ELSE SelectSeq(ord, LAMBDA h : d[h].present /\ PathsOf(d[h]) # {})

\* restore.rs 104-132 into an empty directory: one get_object per tracker of the
\* scan, in the scan's order ord; pick is the iteration order of a tracker's file set
restore_cli(d, s, ord, pick, dry_run) ==
    Fold(LAMBDA tree, h : IF d[h].present
                          THEN get_object(tree, s, h, PathsOf(d[h]), pick, dry_run)
                          ELSE tree,
         [p \in Paths |-> NotRestored], ord)

\* a restore without --dry-run
restore(d, s, ord, pick) == restore_cli(d, s, ord, pick, FALSE)

NumObjects(vs) == Cardinality({k \in 1..Len(vs) : vs[k] = "obj"})

\* two events of the same job: same phase, same file, same side of the change
SameJob(a, b) ==
    a.phase = b.phase /\ a.hash = b.hash /\ a.path = b.path /\ a.role = b.role

EndOfRun == phase = "done" /\ ~dry

NoFaults == NumFailed(log) = 0

NumEvents(ops, h) ==
    Cardinality({k \in 1..Len(log) : log[k].op \in ops /\ log[k].hash = h /\ log[k].ok})

ExecuteWrite(e) == (e.op = "gupd" /\ e.phase # "missing") \/ e.op = "gdel"

\* C2: a glacier row is updated or deleted by the execute stage only after the
\* metadata-store write issued for that path in the same phase has succeeded, and a
\* path whose metadata write failed keeps the glacier row (present or not, and its
\* content hash) it had before the run.
C2_CatalogueAfterMetadata ==
    /\ \A k \in 1..Len(log) :
          (ExecuteWrite(log[k])
           /\ \E j \in 1..Len(log) : /\ log[j].op \in MetaWrites
                                      /\ log[j].phase = log[k].phase
                                      /\ log[j].path = log[k].path)
          => \E j \in 1..(k - 1) : /\ log[j].op \in MetaWrites /\ log[j].ok
                                   /\ log[j].phase = log[k].phase
                                   /\ log[j].path = log[k].path
    /\ \A k \in 1..Len(log) :
          (log[k].op \in MetaWrites /\ ~log[k].ok)
          => /\ glacier[log[k].path].present = pre.g[log[k].path].present
             /\ glacier[log[k].path].file_hash = pre.g[log[k].path].file_hash

\* the attributes of a glacier row the specification names: path, hash, mtime
RowView(r) == [present |-> r.present, file_hash |-> r.file_hash, modified |-> r.modified]

\* C3: at the end of a run in which the object-store step of a hash failed, the
\* tracker of that hash and the glacier rows of the paths of the failed jobs are
\* what they were before the run.
C3_ObjectFailureFrame ==
    EndOfRun =>
        \A k \in 1..Len(log) :
            (log[k].op \in ObjOps /\ ~log[k].ok)
            => /\ dynamo[log[k].hash] = pre.d[log[k].hash]
               /\ RowView(glacier[log[k].path]) = RowView(pre.g[log[k].path])

\* what P9 compares: current object versions, trackers (hash and paths), glacier rows
Outcome(w) ==
    [objects  |-> [h \in Hashes |-> IsCurrent(w.s[h])],
     trackers |-> [h \in Hashes |-> [present |-> w.d[h].present, paths |-> PathsOf(w.d[h])]],
     rows     |-> [p \in Paths |-> RowView(w.g[p])]]

Orders == [1..6 -> Perms(NumPaths)]

\* every failed call of the run is a metadata write that followed its job's
\* successful object step
FailedBetweenObjectAndMetadata ==
    /\ ~NoFaults
    /\ \A k \in 1..Len(log) :
          ~log[k].ok =>
              /\ log[k].op \in MetaWrites
              /\ \E j \in 1..(k - 1) :
                    log[j].op \in ObjOps /\ log[j].ok /\ SameJob(log[j], log[k])

\* C4 (P9): after a run that failed between the object-store step and the metadata
\* write of a hash, a failure-free run over the same filesystem ends in a state a
\* single failure-free run from the original stores could have ended in.
C4_PartialFailureSafety ==
    (EndOfRun /\ FailedBetweenObjectAndMetadata
     /\ AllOnDisk(get_pending_upload_files(glacier)))
    => \A o1 \in Orders : \E o2 \in Orders :
          Outcome(backup(Stores, fs, o1, now)) = Outcome(backup(pre, fs, o2, now))

\* C5 (I1): at the end of every run, even one in which no call failed, every glacier
\* row has a hash whose tracker exists and lists the row's path.
C5_I1_RowsTracked ==
    (EndOfRun /\ NoFaults) =>
        \A p \in Paths :
            glacier[p].present =>
                /\ glacier[p].file_hash # NoHash
                /\ dynamo[glacier[p].file_hash].present
                /\ p \in PathsOf(dynamo[glacier[p].file_hash])

\* C6 (I2): at the end of every run, even one in which no call failed, every tracker
\* with paths has exactly one object version that is not a delete marker, and that
\* version is the current one.
C6_I2_ObjectPresent ==
    (EndOfRun /\ NoFaults) =>
        \A h \in Hashes :
            (dynamo[h].present /\ PathsOf(dynamo[h]) # {})
            => NumObjects(s3[h]) = 1 /\ IsCurrent(s3[h])

\* C7 (P1): a run that follows a completed run with zero failures, with no change of
\* the filesystem in between, issues no put, delete or restore-from-delete on the
\* object store and no put or delete on the metadata store.
C7_Idempotence ==
    (prev.valid /\ prev.failures = 0 /\ ~dry /\ phase # "idle")
    => \A k \in 1..Len(log) : log[k].op \notin (ObjOps \cup MetaWrites)

\* the second of two runs over an unchanged tree that holds a backed-up file
C7_Witness ==
    /\ EndOfRun /\ prev.valid /\ prev.failures = 0
    /\ \E p \in Paths : fs[p].hash # NoHash /\ glacier[p].present
                        /\ glacier[p].file_hash = fs[p].hash

\* path a, backed up as the only path of hash h, was moved to path b
Renamed(a, b, h) ==
    /\ a # b
    /\ pre.g[a].present /\ pre.g[a].file_hash = h /\ pre.g[a].uploaded # NoTime
    /\ ~pre.g[a].pending_delete
    /\ pre.d[h].present /\ PathsOf(pre.d[h]) = {a}
    /\ IsCurrent(pre.s[h])
    /\ ~pre.g[b].present
    /\ fs[a].hash = NoHash /\ fs[b].hash = h

\* C8 (P2): the run after a rename issues no object-store Put and no Delete for the
\* hash, and leaves the tracker of the hash with paths = {b}.
C8_RenameDedup ==
    (EndOfRun /\ NoFaults) =>
        \A a \in Paths, b \in Paths, h \in Hashes :
            Renamed(a, b, h)
            => /\ NumEvents({"s3put", "s3del"}, h) = 0
               /\ dynamo[h].present /\ PathsOf(dynamo[h]) = {b}

\* the files that hold content h
Holders(h) == {p \in Paths : fs[p].hash = h}

\* content h was never seen: no tracker, no object version, no glacier row
NeverSeen(h) ==
    /\ ~pre.d[h].present /\ pre.s[h] = << >>
    /\ \A p \in Paths : pre.g[p].present => pre.g[p].file_hash # h
    /\ \A p \in Holders(h) : ~pre.g[p].present

\* C9 (P3): after a failure-free run over N >= 1 new files of never-seen content h,
\* the object store holds one object for h and the tracker of h lists all N paths.
C9_DuplicateDedup ==
    (EndOfRun /\ NoFaults) =>
        \A h \in Hashes :
            (NeverSeen(h) /\ Holders(h) # {})
            => /\ s3[h] = <<"obj">>
               /\ dynamo[h].present /\ PathsOf(dynamo[h]) = Holders(h)

\* path a was the only path of hash h (the only glacier row with that hash, the only
\* path of its tracker), it is gone from disk before h expires and no file holds h
LastPathGone(a, h) ==
    /\ pre.g[a].present /\ pre.g[a].file_hash = h
    /\ \A p \in Paths \ {a} : ~(pre.g[p].present /\ pre.g[p].file_hash = h)
    /\ pre.d[h].present /\ PathsOf(pre.d[h]) = {a}
    /\ now < pre.d[h].expiration
    /\ fs[a].hash = NoHash /\ Holders(h) = {}

\* C10 (P4, first half): the failure-free run after the last path of a hash is gone,
\* before the tracker expires, writes one delete marker for the hash and leaves the
\* tracker in the metadata store with no paths.
C10_TombstoneKept ==
    (EndOfRun /\ NoFaults) =>
        \A a \in Paths, h \in Hashes :
            LastPathGone(a, h)
            => /\ NumEvents({"s3del"}, h) = 1
               /\ dynamo[h].present /\ PathsOf(dynamo[h]) = {}

C10_Witness ==
    /\ EndOfRun /\ NoFaults
    /\ \E a \in Paths, h \in Hashes :
          /\ LastPathGone(a, h)
          /\ NumEvents({"s3del"}, h) = 1 /\ dynamo[h].present /\ ~glacier[a].present

\* the operations issued on hash h in the run, failed ones included
NumIssued(ops, h) ==
    Cardinality({k \in 1..Len(log) : log[k].op \in ops /\ log[k].hash = h})

\* every tracker lookup of the run was answered
LookupsAnswered == \A k \in 1..Len(log) : log[k].op = "dget" => log[k].ok

\* file b is new, it is the only file with content h, and h has a tombstone: a
\* tracker with no paths
Recreated(b, h) ==
    /\ Holders(h) = {b} /\ ~pre.g[b].present
    /\ pre.d[h].present /\ PathsOf(pre.d[h]) = {}

\* C11 (P4, second half): a run over a new file whose content hash has a tracker with
\* no paths and an expiration still in the future issues one Restore-from-delete for
\* the hash and, when that succeeds, no Put.
C11_TombstoneRestore ==
    (EndOfRun /\ LookupsAnswered) =>
        \A b \in Paths, h \in Hashes :
            (Recreated(b, h) /\ now < pre.d[h].expiration)
            => /\ NumIssued({"s3undel"}, h) = 1
               /\ NumEvents({"s3undel"}, h) = 1 => NumIssued({"s3put"}, h) = 0

C11_Witness ==
    /\ EndOfRun /\ NoFaults
    /\ \E b \in Paths, h \in Hashes :
          /\ Recreated(b, h) /\ now < pre.d[h].expiration
          /\ NumEvents({"s3undel"}, h) = 1
          /\ glacier[b].present /\ glacier[b].file_hash = h

\* C12 (P5): a run over a new file whose content hash has a tracker with no paths and
\* an expiration already in the past issues exactly one Put for the hash and no
\* Restore-from-delete, and when no call fails the tracker it leaves lists the file
\* and expires at now + min_storage_duration.
C12_ColdReupload ==
    (EndOfRun /\ LookupsAnswered) =>
        \A b \in Paths, h \in Hashes :
            (Recreated(b, h) /\ pre.d[h].expiration < now)
            => /\ NumIssued({"s3put"}, h) = 1
               /\ NumIssued({"s3undel"}, h) = 0
               /\ NoFaults => /\ dynamo[h].present /\ PathsOf(dynamo[h]) = {b}
                              /\ dynamo[h].expiration = now + min_storage_duration

C12_Witness ==
    /\ EndOfRun /\ NoFaults
    /\ \E b \in Paths, h \in Hashes :
          /\ Recreated(b, h) /\ pre.d[h].expiration < now
          /\ NumEvents({"s3put"}, h) = 1
          /\ dynamo[h].expiration > pre.d[h].expiration

\* C13: when no remote call has failed, every hash whose object the run uploaded (first
\* upload or re-upload) or un-deleted has, at the end of the run, a tracker whose
\* expiration is now + min_storage_duration.
C13_ExpirationReset ==
    (EndOfRun /\ faulted = 0) =>
        \A h \in Hashes :
            (NumEvents({"s3put", "s3undel"}, h) >= 1 /\ dynamo[h].present)
            => dynamo[h].expiration = now + min_storage_duration

\* the last step of a dry run
DryRunEnds == phase = "finish" /\ dry

\* C14 (P8): a dry run ends with the glacier relation, the metadata store and the
\* object store exactly as they were before the run, and with the local relation
\* empty, whatever the new, changed and missing sets are.
C14_DryRunPurity ==
    [][DryRunEnds => /\ glacier' = pre.g /\ dynamo' = pre.d /\ s3' = pre.s
                     /\ local' = [p \in Paths |-> NoTime]]_vars

\* a dry run over a tree with a new, a changed or a missing file has ended
C14_Witness ==
    /\ phase = "done" /\ dry
    /\ \E p \in Paths :
          \/ fs[p].hash # NoHash /\ ~glacier[p].present
          \/ fs[p].hash # NoHash /\ glacier[p].present /\ glacier[p].modified # fs[p].mtime
          \/ fs[p].hash = NoHash /\ glacier[p].present

\* C14 as stated: the local relation too is as it was before the run
C14_LocalAsBefore ==
    [][DryRunEnds => /\ glacier' = pre.g /\ dynamo' = pre.d /\ s3' = pre.s
                     /\ local' = pre.l]_vars

\* C15 (P6): a run that is not a dry run and starts with an empty glacier relation has,
\* before its first diff, a glacier row (path, hash) for every path in the paths of
\* every tracker of the metadata store.
C15_BootstrapRows ==
    (phase = "pending_uploads" /\ ~dry /\ glacier_state_is_empty(pre.g)) =>
        \A h \in Hashes : \A p \in PathsOf(pre.d[h]) :
            glacier[p].present /\ glacier[p].file_hash = h

\* C16 (P7): after a run, no remote call having failed, a restore into an empty
\* directory creates a file with the content of hash h at every path of the tracker
\* of h, for every tracker, and no file at any other path.
C16_Roundtrip ==
    (EndOfRun /\ faulted = 0) =>
        \A ord \in Perms(NumHashes), pick \in Perms(NumPaths) :
            LET tree == restore(dynamo, s3, ord, pick) IN
            /\ \A h \in Hashes : \A p \in PathsOf(dynamo[h]) :
                   tree[p].made /\ tree[p].content = h
            /\ \A p \in Paths :
                   tree[p].made => \E h \in Hashes : p \in PathsOf(dynamo[h])

\* the paths the six queries of a run hand to the engine
Selected(l, g) ==
    LET qs == <<get_pending_upload_files(g), get_pending_update_files(g),
                get_pending_delete_files(g), get_new_files(l, g),
                get_changed_files(l, g), get_missing_files(l, g)>>
    IN  UNION {{qs[i][k] : k \in DOMAIN qs[i]} : i \in DOMAIN qs}

\* an object-store operation of a job of path p failed in the run whose log this is
ObjectStepFailed(p) ==
    \E k \in 1..Len(log) :
        log[k].op \in {"s3put", "s3del"} /\ log[k].path = p /\ ~log[k].ok

\* a backup run starts right after a backup run
NextRunStarts == phase = "done" /\ ~dry /\ phase' = "pending_uploads" /\ ~dry'

FailedSteps(ops) == {k \in 1..Len(log) : log[k].op \in ops /\ ~log[k].ok}

\* C18: at the end of a run the failures count is at least the number of failed
\* object-store operations and metadata-store writes, no step of a job follows a
\* failed object-store operation of that job, and a job whose metadata-store write
\* failed has written no glacier row.
C18_FailedStepCounted ==
    EndOfRun =>
        /\ failures >= Cardinality(FailedSteps(ObjOps \cup MetaWrites))
        /\ \A k \in FailedSteps(ObjOps) :
               \A n \in 1..Len(log) : ~(n > k /\ SameJob(log[n], log[k]))
        /\ \A k \in FailedSteps(MetaWrites) :
               \A n \in 1..Len(log) : ~(SameJob(log[n], log[k]) /\ ExecuteWrite(log[n]))

\* C20: at the end of a run, for every tracker lookup that returned a remote error,
\* a failure is counted and the job of that lookup has issued no object-store operation
\* and no metadata-store write.
C20_LookupErrorCounted ==
    EndOfRun =>
        \A k \in FailedSteps({"dget"}) :
            /\ failures >= 1
            /\ \A n \in 1..Len(log) :
                   ~(SameJob(log[n], log[k]) /\ log[n].op \in ObjOps \cup MetaWrites)

\* the glacier row of path q says what the tree holds at q
UpToDate(q) ==
    IF fs[q].hash = NoHash THEN ~glacier[q].present
    ELSE /\ glacier[q].present /\ ~glacier[q].pending_delete
         /\ glacier[q].file_hash = fs[q].hash
         /\ glacier[q].modified = fs[q].mtime /\ glacier[q].uploaded = fs[q].mtime

\* path q has, on disk and in the catalogue the run started from, nothing to do with
\* hash h
Unrelated(q, h) == fs[q].hash # h /\ pre.g[q].file_hash # h

\* the lookup of the old hash of a changed file found no tracker: the job ends there,
\* without the Delete of the old object and without the update of the glacier row
LookupMissed(k) ==
    /\ log[k].op = "dget" /\ log[k].role = "old" /\ log[k].ok
    /\ ~\E n \in (k + 1)..Len(log) :
           /\ log[n].phase = log[k].phase /\ log[n].path = log[k].path
           /\ log[n].op \in {"gupd", "s3del"}

\* the steps of the run that failed: the remote calls that returned an error, and the
\* lookups of an old hash that found nothing
FailedCalls ==
    FailedSteps(ObjOps \cup MetaWrites \cup {"dget"}) \cup {k \in 1..Len(log) : LookupMissed(k)}

\* every path that is not the path of a failed step, and has nothing to do with the
\* hash of one, has been brought up to date
OthersProceeded ==
    \A q \in Paths :
        (\A k \in FailedCalls : q # log[k].path /\ Unrelated(q, log[k].hash))
        => UpToDate(q)

RunIdle ==
    /\ fs = [p \in Paths |-> NoFile]
    /\ local = [p \in Paths |-> NoTime]
    /\ glacier = [p \in Paths |-> NoRow]
    /\ phase = "idle" /\ dry = FALSE /\ log = << >> /\ failures = 0 /\ runs = 0
    /\ pre = NoStores /\ prev = NoPrev /\ faulted = 0

RunUnchanged ==
    UNCHANGED <<fs, local, glacier, phase, dry, log, failures, runs, pre, prev, faulted>>

\* the items put can have written: the paths, or the sentinel alone
StoredItems ==
    {NoItem} \cup
    {[present |-> TRUE, file_names |-> n, expiration |-> e] :
        n \in ((SUBSET Paths) \ {{}}) \cup {{NONE_STR}}, e \in 0..MaxTime}

\* the version lists of a key: at most MaxVersions versions
VersionLists ==
    UNION {[1..n -> {"obj", "dm"}] : n \in 0..MaxVersions}

(* ------------------------ main.rs: clean-dynamo ------------------------ *)
\* HashTracker::get_all: every item of the scan, imported
get_all(d) ==
    LET hs == Sorted({h \in Hashes : d[h].present})
    IN  [k \in 1..Len(hs) |-> import(hs[k], d[hs[k]].expiration, d[hs[k]].file_names)]

\* HashTracker::update (dynamodb.rs 309-318): delete iff no files and expired, else put
HashTracker_update(w, t, t_now) ==
    IF ~has_files(t) /\ is_expired(t, t_now)
    THEN HashTracker_delete(w, "old", t, NONE_STR, FALSE)
    ELSE HashTracker_put(w, "new", t, NONE_STR, FALSE)

\* main.rs 265-279: update every tracker of the scan
clean_dynamo(w, t_now) ==
    Fold(LAMBDA a, t : HashTracker_update(a, t, t_now), w, get_all(w.d))

InitCleanDynamo ==
    /\ RunIdle
    /\ dynamo \in [Hashes -> StoredItems]
    /\ s3 = [h \in Hashes |-> << >>]
    /\ now \in 0..MaxTime
    /\ arg = [op |-> "clean-dynamo"]
    /\ ret = Nil

\* ret keeps the metadata store the command started from
CleanDynamo ==
    /\ arg.op = "clean-dynamo" /\ ret = Nil
    /\ dynamo' = clean_dynamo(World, now).d
    /\ ret' = [op |-> "clean-dynamo", d |-> dynamo]
    /\ RunUnchanged
    /\ UNCHANGED <<s3, now, arg>>

NextCleanDynamo == CleanDynamo

SpecCleanDynamo == InitCleanDynamo /\ [][NextCleanDynamo]_vars

\* a tombstone that I3 no longer allows: no paths, and now >= expiration
Lapsed(item, t_now) == item.present /\ PathsOf(item) = {} /\ t_now >= item.expiration

\* C21 (I3): after clean-dynamo the metadata store holds no tracker with empty paths
\* and now >= expiration, and every other tracker is as it was.
C21_CleanDynamo ==
    ret.op = "clean-dynamo" =>
        \A h \in Hashes :
            /\ ~Lapsed(dynamo[h], now)
            /\ (ret.d[h].present /\ ~Lapsed(ret.d[h], now)) => dynamo[h] = ret.d[h]

(* ------------- dynamodb.rs: put and get of one tracker ---------------- *)
\* DateTime::timestamp: the whole seconds of an instant given in ticks
timestamp(e) == e \div TicksPerSecond

\* DateTime::from_timestamp(seconds, 0)
from_timestamp(sec) == sec * TicksPerSecond

\* the item put_item sends (dynamodb.rs 258-263); its expiration is in seconds
put_item(t) ==
    [present |-> TRUE, file_names |-> PutFileNames(t), expiration |-> timestamp(t.expiration)]

\* the tracker get and get_all build from an item (dynamodb.rs 183-198, 213-218)
from_item(h, item) == import(h, from_timestamp(item.expiration), item.file_names)

\* the trackers the engine builds: a hash, an instant, a set of paths
Trackers ==
    {HashTracker(h, e, n) :
        h \in Hashes, e \in 0..(TicksPerSecond * (MaxTime + 1) - 1), n \in SUBSET Paths}

InitRoundTrip ==
    /\ RunIdle
    /\ dynamo \in [Hashes -> StoredItems]
    /\ s3 = [h \in Hashes |-> << >>]
    /\ now = 0
    /\ arg \in {[op |-> "put", t |-> t] : t \in Trackers}
    /\ ret = Nil

PutTracker ==
    /\ arg.op = "put" /\ ret = Nil
    /\ dynamo' = [dynamo EXCEPT ![arg.t.hash] = put_item(arg.t)]
    /\ ret' = [op |-> "put"]
    /\ RunUnchanged
    /\ UNCHANGED <<s3, now, arg>>

GetTracker ==
    /\ ret.op = "put"
    /\ ret' = [op |-> "get", t |-> from_item(arg.t.hash, dynamo[arg.t.hash])]
    /\ RunUnchanged
    /\ UNCHANGED <<dynamo, s3, now, arg>>

GetAllTrackers ==
    /\ ret.op = "put"
    /\ ret' = [op |-> "get_all",
               ts |-> {from_item(h, dynamo[h]) : h \in {x \in Hashes : dynamo[x].present}}]
    /\ RunUnchanged
    /\ UNCHANGED <<dynamo, s3, now, arg>>

NextRoundTrip == PutTracker \/ GetTracker \/ GetAllTrackers

SpecRoundTrip == InitRoundTrip /\ [][NextRoundTrip]_vars

\* tracker r is tracker t to the second
SameToTheSecond(r, t) ==
    /\ r.hash = t.hash /\ r.file_names = t.file_names
    /\ timestamp(r.expiration) = timestamp(t.expiration)

\* C23: a get after put(t) returns the hash and the paths of t and its expiration to
\* the second; the item holds the sentinel exactly when t has no paths, and no tracker
\* returned by get or get_all holds the sentinel.
C23_MetadataRoundTrip ==
    /\ ret.op \in {"put", "get", "get_all"} =>
           (NONE_STR \in dynamo[arg.t.hash].file_names <=> arg.t.file_names = {})
    /\ ret.op = "get" => SameToTheSecond(ret.t, arg.t) /\ NONE_STR \notin ret.t.file_names
    /\ ret.op = "get_all" =>
           /\ \A r \in ret.ts : NONE_STR \notin r.file_names
           /\ \E r \in ret.ts : SameToTheSecond(r, arg.t)

\* a tracker without paths and with a fraction of a second has come back from get
C23_Witness ==
    /\ ret.op = "get" /\ arg.t.file_names = {}
    /\ ret.t.expiration # arg.t.expiration
    /\ dynamo[arg.t.hash].file_names = {NONE_STR}

(* ------------------- lib.rs: the three diff queries ------------------- *)
\* the rows the glacier_state relation can hold for one path
GlacierRows ==
    {NoRow} \cup
    {[present |-> TRUE, file_hash |-> h, modified |-> m, uploaded |-> u, pending_delete |-> pd] :
        h \in {NoHash} \cup Hashes, m \in 0..MaxMtime, u \in {NoTime, 0}, pd \in BOOLEAN}

InitQueries ==
    /\ fs = [p \in Paths |-> NoFile]
    /\ local \in [Paths -> {NoTime} \cup (0..MaxMtime)]
    /\ glacier \in [Paths -> GlacierRows]
    /\ dynamo = [h \in Hashes |-> NoItem]
    /\ s3 = [h \in Hashes |-> << >>]
    /\ now = 0
    /\ phase = "idle" /\ dry = FALSE /\ log = << >> /\ failures = 0 /\ runs = 0
    /\ pre = NoStores /\ prev = NoPrev /\ faulted = 0
    /\ arg \in {[op |-> q] : q \in {"new_files", "changed_files", "missing_files"}}
    /\ ret = Nil

\* a query is a SELECT: it returns rows and writes nothing
Query(q, rows) ==
    /\ arg.op = q /\ ret = Nil
    /\ ret' = [op |-> q, rows |-> rows, l |-> local, g |-> glacier]
    /\ RunUnchanged
    /\ UNCHANGED <<dynamo, s3, now, arg>>

NewFilesQuery == Query("new_files", get_new_files(local, glacier))

ChangedFilesQuery == Query("changed_files", get_changed_files(local, glacier))

MissingFilesQuery == Query("missing_files", get_missing_files(local, glacier))

NextQueries == NewFilesQuery \/ ChangedFilesQuery \/ MissingFilesQuery

SpecQueries == InitQueries /\ [][NextQueries]_vars

\* the paths of the rows a query returned
Returned == {ret.rows[k] : k \in DOMAIN ret.rows}

HasLocal(p) == local[p] # NoTime

HasGlacier(p) == glacier[p].present

\* C24: new_files returns exactly the local rows without a glacier row, changed_files
\* exactly the local rows with a glacier row of smaller mtime, missing_files exactly
\* the glacier rows without a local row; no query changes either relation.
C24_DiffQueries ==
    ret.op \in {"new_files", "changed_files", "missing_files"} =>
        /\ local = ret.l /\ glacier = ret.g
        /\ Len(ret.rows) = Cardinality(Returned)
        /\ \A p \in Paths :
            /\ ret.op = "new_files" => (p \in Returned <=> HasLocal(p) /\ ~HasGlacier(p))
            /\ ret.op = "changed_files" =>
                   (p \in Returned <=>
                        HasLocal(p) /\ HasGlacier(p) /\ local[p] > glacier[p].modified)
            /\ ret.op = "missing_files" => (p \in Returned <=> HasGlacier(p) /\ ~HasLocal(p))

\* changed_files has returned one row and left out a row of equal mtime
C24_Witness ==
    /\ ret.op = "changed_files" /\ Len(ret.rows) = 1
    /\ \E p \in Paths : HasLocal(p) /\ HasGlacier(p) /\ local[p] = glacier[p].modified

(* ------------- main.rs: backup with --filter, then restore ------------ *)
\* the exclude lists args.filter can hold after fix_filter
Filters == UNION {[1..n -> Regexes] : n \in 0..MaxFilters}

\* the trees of the target directory: every file written once
Trees == [Paths -> {NoFile} \cup {[hash |-> h, mtime |-> 1] : h \in Hashes}]

\* every phase completing its writes in the order they were issued
InOrder == [k \in 1..6 |-> [i \in 1..NumPaths |-> i]]

\* the stores are empty, or hold an earlier backup of the tree made without a filter
InitFilter ==
    /\ fs \in Trees
    /\ local = [p \in Paths |-> NoTime]
    /\ \E st \in {NoStores, backup(NoStores, fs, InOrder, 0)} :
           glacier = st.g /\ dynamo = st.d /\ s3 = st.s
    /\ now = 0
    /\ phase = "idle" /\ dry = FALSE /\ log = << >> /\ failures = 0 /\ runs = 0
    /\ pre = NoStores /\ prev = NoPrev /\ faulted = 0
    /\ arg \in {[op |-> "backup", filter |-> f] : f \in Filters}
    /\ ret = Nil

\* main.rs 157-209 with no remote call failing; the scan is kept for inspection
BackupFiltered ==
    /\ arg.op = "backup" /\ ret = Nil
    /\ \E ord \in Perms(NumPaths) :
         LET l == load_filter(fs, arg.filter)
             w == backup_with(Stores, l, fs, [k \in 1..6 |-> ord], now)
         IN  /\ glacier' = w.g /\ dynamo' = w.d /\ s3' = w.s
             /\ ret' = [op |-> "backup", l |-> l, failures |-> w.failures]
    /\ UNCHANGED <<fs, local, now, phase, dry, log, failures, runs, pre, prev, faulted, arg>>

\* restore into an empty directory
RestoreTree ==
    /\ ret.op = "backup"
    /\ \E ord \in Perms(NumHashes), pick \in Perms(NumPaths) :
          ret' = [op |-> "restore", l |-> ret.l, failures |-> ret.failures,
                  tree |-> restore(dynamo, s3, ord, pick)]
    /\ RunUnchanged
    /\ UNCHANGED <<dynamo, s3, now, arg>>

NextFilter == BackupFiltered \/ RestoreTree

SpecFilter == InitFilter /\ [][NextFilter]_vars

\* path p matches at least one regex of the exclude list
Matches(p) == \E k \in DOMAIN arg.filter : p \in arg.filter[k]

Tracked(p) == \E h \in Hashes : p \in PathsOf(dynamo[h])

\* C25: after a backup with an exclude list and a restore, a regular file that matches
\* a regex had no local row, is in no tracker's paths and was not created by restore;
\* a regular file that matches none is in a tracker's paths and was restored with
\* its content.
C25_RegexExclusion ==
    ret.op = "restore" =>
        \A p \in Paths : fs[p].hash # NoHash =>
            IF Matches(p)
            THEN ret.l[p] = NoTime /\ ~Tracked(p) /\ ~ret.tree[p].made
            ELSE /\ ret.l[p] # NoTime /\ Tracked(p)
                 /\ ret.tree[p].made /\ ret.tree[p].content = fs[p].hash

(* ------------------------ main.rs: delete-backup ---------------------- *)
\* the characters standard input can hold
Chars == {"y", "E", "s", "n", " ", "\n"}

Inputs == UNION {[1..n -> Chars] : n \in 0..MaxLine}

\* Stdin::read_line: the input up to and including the first newline
read_line(input) ==
    LET nl == {k \in 1..Len(input) : input[k] = "\n"} IN
    IF nl = {} THEN input ELSE SubSeq(input, 1, Min(nl))

is_whitespace(c) == c \in {" ", "\n"}

\* buffer.retain(|c| !c.is_whitespace())
retain_not_whitespace(buffer) == SelectSeq(buffer, LAMBDA c : ~is_whitespace(c))

to_lowercase(buffer) ==
    [k \in 1..Len(buffer) |-> IF buffer[k] = "E" THEN "e" ELSE buffer[k]]

\* a test that looks at the first character only
confirmedMut(buffer) == Len(buffer) > 0 /\ to_lowercase(buffer)[1] = "y"

\* main.rs 335: the negation of the abort test
confirmed(buffer) ==
    to_lowercase(buffer) = <<"y">> \/ to_lowercase(buffer) = <<"y", "e", "s">>

\* the remote calls of the purge that can fail; k is the tracker whose delete fails
PurgeFaults ==
    {[at |-> a, k |-> 0] : a \in {"none", "scan", "list", "delete_objects"}}
    \cup {[at |-> "delete_item", k |-> k] : k \in 1..NumHashes}

\* dynamodb.rs 385-393: delete every tracker of the scan, stopping at the first error
HashTracker_permanently_delete_all(d, fault) ==
    LET ts == get_all(d)
        n  == IF fault.at = "delete_item" THEN fault.k - 1 ELSE Len(ts)
    IN  [h \in Hashes |-> IF \E k \in 1..Len(ts) : k <= n /\ ts[k].hash = h
                          THEN NoItem ELSE d[h]]

\* s3.rs 475-500: one list_object_versions call, one delete_objects call for the
\* entries of versions(); the delete markers of the listing are not used
s3_permanently_delete_all(s, fault) ==
    IF fault.at \in {"list", "delete_objects"} THEN s
    ELSE [h \in Hashes |-> SelectSeq(s[h], LAMBDA v : v # "obj")]

\* main.rs 326-353; an error of get_all ends the process at the unwrap
delete_backup(d, s, input, fault) ==
    IF ~confirmed(retain_not_whitespace(read_line(input))) \/ fault.at = "scan"
    THEN [d |-> d, s |-> s]
    ELSE [d |-> HashTracker_permanently_delete_all(d, fault),
          s |-> s3_permanently_delete_all(s, fault)]

InitDeleteBackup ==
    /\ RunIdle
    /\ dynamo \in [Hashes -> {NoItem, [present |-> TRUE, file_names |-> {1}, expiration |-> 1]}]
    /\ s3 \in [Hashes -> VersionLists]
    /\ now = 0
    /\ arg \in {[op |-> "delete-backup", stdin |-> i] : i \in Inputs}
    /\ ret = Nil

DeleteBackup ==
    /\ arg.op = "delete-backup" /\ ret = Nil
    /\ \E fault \in PurgeFaults :
          /\ fault.at = "delete_item" => fault.k <= Len(get_all(dynamo))
          /\ LET r == delete_backup(dynamo, s3, arg.stdin, fault) IN
             /\ dynamo' = r.d /\ s3' = r.s
             /\ ret' = [op |-> "delete-backup", d |-> dynamo, s |-> s3, fault |-> fault.at]
    /\ RunUnchanged
    /\ UNCHANGED <<now, arg>>

NextDeleteBackup == DeleteBackup

SpecDeleteBackup == InitDeleteBackup /\ [][NextDeleteBackup]_vars

\* the line of standard input without its whitespace
Answer == retain_not_whitespace(read_line(arg.stdin))

\* two characters that differ in case at most
SameLetter(a, b) == a = b \/ {a, b} \in {{"y", "Y"}, {"e", "E"}, {"s", "S"}}

\* word w read without regard to case
IsWord(buffer, w) ==
    Len(buffer) = Len(w) /\ \A k \in 1..Len(w) : SameLetter(buffer[k], w[k])

Deleted == dynamo # ret.d \/ s3 # ret.s

\* C26: delete-backup deletes nothing in the object store or the metadata store unless
\* the line read from standard input, its whitespace removed and case disregarded,
\* is "y" or "yes".
C26_ConfirmedOnly ==
    (ret.op = "delete-backup" /\ Deleted) =>
        IsWord(Answer, <<"y">>) \/ IsWord(Answer, <<"y", "e", "s">>)

\* a purge has followed an answer with an upper-case letter and a newline
C26_Witness ==
    /\ ret.op = "delete-backup" /\ Deleted
    /\ arg.stdin = <<"y", "E", "s", "\n">>

\* C27: after a confirmed delete-backup that met no store error the metadata store
\* holds no tracker and the object store no version of any key, object version or
\* delete marker.
C27_PurgeComplete ==
    (ret.op = "delete-backup" /\ ret.fault = "none" /\ confirmed(Answer)) =>
        \A h \in Hashes : ~dynamo[h].present /\ s3[h] = << >>

(* ----------------------- s3.rs: put, put_multipart -------------------- *)
\* lines 218-238: chunk_count and size_of_last_chunk are computed from MIN_CHUNK_SIZE
\* in every turn of the loop; only chunk_size doubles
RECURSIVE ChunkLoop(_, _)
ChunkLoop(file_size, chunk_size) ==
    LET rem   == file_size % MIN_CHUNK_SIZE
        count == IF rem = 0 THEN file_size \div MIN_CHUNK_SIZE
                 ELSE (file_size \div MIN_CHUNK_SIZE) + 1
        last  == IF rem = 0 THEN MIN_CHUNK_SIZE ELSE rem
    IN  IF count * chunk_size > MAX_S3_OBJECT_SIZE
        THEN [ok |-> FALSE, chunk_count |-> count, size_of_last_chunk |-> last]
        ELSE IF count > MAX_CHUNKS THEN ChunkLoop(file_size, chunk_size * 2)
        ELSE [ok |-> TRUE, chunk_count |-> count, size_of_last_chunk |-> last]

\* every chunk of the minimum size
this_chunkMut(chunk_count, chunk_index, size_of_last_chunk) == MIN_CHUNK_SIZE

\* lines 243-247
this_chunk(chunk_count, chunk_index, size_of_last_chunk) ==
    IF chunk_count - 1 = chunk_index THEN size_of_last_chunk ELSE MIN_CHUNK_SIZE

\* the file sizes tried: around the multipart threshold, around the largest size of
\* MAX_CHUNKS chunks of MIN_CHUNK_SIZE, and around the largest object
FileSizes ==
    UNION {{b + k - Window : k \in 0..(2 * Window)} :
              b \in {MULTIPART_UPLOAD_THRESHOLD, MAX_CHUNKS * MIN_CHUNK_SIZE, MAX_S3_OBJECT_SIZE}}

InitMultipart ==
    /\ RunIdle
    /\ dynamo = [h \in Hashes |-> NoItem]
    /\ s3 = [h \in Hashes |-> << >>]
    /\ now = 0
    /\ arg \in {[op |-> "put", size |-> n] : n \in FileSizes}
    /\ ret = Nil

Returns(r) ==
    /\ ret' = r
    /\ RunUnchanged
    /\ UNCHANGED <<dynamo, s3, now, arg>>

\* s3.rs 144-163: a file of at most the threshold goes up in one put_object
PutObject ==
    /\ arg.op = "put" /\ ret = Nil
    /\ arg.size <= MULTIPART_UPLOAD_THRESHOLD
    /\ Returns([op |-> "put_object"])

\* s3.rs 208-240: the upload is created, then the chunks are counted
CreateMultipart ==
    /\ arg.op = "put" /\ ret = Nil
    /\ arg.size > MULTIPART_UPLOAD_THRESHOLD
    /\ LET r == ChunkLoop(arg.size, MIN_CHUNK_SIZE) IN
       IF r.ok
       THEN Returns([op |-> "upload", chunk_count |-> r.chunk_count,
                     size_of_last_chunk |-> r.size_of_last_chunk, chunk_index |-> 0,
                     part_number |-> 0, offset |-> 0, length |-> 0,
                     prev_end |-> 0, sum |-> 0])
       ELSE Returns([op |-> "error"])

\* s3.rs 242-272: one turn of the loop; prev_end is where the part before ended and
\* sum the length of all parts so far
UploadPart ==
    /\ ret.op = "upload" /\ ret.chunk_index < ret.chunk_count
    /\ LET len == this_chunk(ret.chunk_count, ret.chunk_index, ret.size_of_last_chunk) IN
       Returns([ret EXCEPT !.chunk_index = @ + 1,
                           !.part_number = ret.chunk_index + 1,
                           !.offset = ret.chunk_index * MIN_CHUNK_SIZE,
                           !.length = len,
                           !.prev_end = ret.offset + ret.length,
                           !.sum = @ + len])

\* s3.rs 274-282
CompleteMultipart ==
    /\ ret.op = "upload" /\ ret.chunk_index = ret.chunk_count
    /\ Returns([ret EXCEPT !.op = "complete"])

NextMultipart == PutObject \/ CreateMultipart \/ UploadPart \/ CompleteMultipart

SpecMultipart == InitMultipart /\ [][NextMultipart]_vars

\* the multipart upload of the file has returned, with an error or completed
UploadReturned == ret.op \in {"error", "complete"}

\* C28: a multipart upload (file size above 100 MiB) returns an error if and only if
\* the size is above 5 TiB, and a file of at most 5 TiB is completed in at most
\* 10 000 parts.
C28_MultipartLimits ==
    UploadReturned =>
        /\ ret.op = "error" <=> arg.size > MAX_S3_OBJECT_SIZE
        /\ arg.size <= MAX_S3_OBJECT_SIZE =>
               ret.op = "complete" /\ ret.part_number <= MAX_CHUNKS

\* C29: the parts of an accepted file are numbered 1..k in the order of upload, each
\* starts where the part before ended, every part but the last has at least 5 MiB, and
\* at the complete-multipart call the lengths sum to the file size.
C29_PartsCoverFile ==
    ret.op \in {"upload", "complete"} =>
        /\ ret.part_number = ret.chunk_index
        /\ ret.chunk_index > 0 =>
               /\ ret.offset = ret.prev_end
               /\ ret.part_number < ret.chunk_count => ret.length >= MIN_CHUNK_SIZE
               /\ ret.length > 0
        /\ ret.op = "complete" =>
               /\ ret.part_number = ret.chunk_count
               /\ ret.sum = arg.size /\ ret.offset + ret.length = arg.size

\* an upload was completed whose last part is shorter than the others
C29_Witness ==
    /\ ret.op = "complete" /\ ret.chunk_count > 1
    /\ ret.length < MIN_CHUNK_SIZE

(* ------------- backup.rs: upload_new_files over tombstones ------------ *)
\* the stores in which the hashes of T are tombstones that have not expired: a
\* tracker without paths, an object whose current version is a delete marker
Tombstones(T) ==
    [g |-> [p \in Paths |-> NoRow],
     d |-> [h \in Hashes |-> IF h \in T
                             THEN [present |-> TRUE, file_names |-> {NONE_STR},
                                   expiration |-> min_storage_duration]
                             ELSE NoItem],
     s |-> [h \in Hashes |-> IF h \in T THEN <<"obj", "dm">> ELSE << >>],
     l |-> [p \in Paths |-> NoTime]]

\* a run has scanned the tree and reached the phase of the new files
InitNewFiles ==
    /\ fs \in Trees
    /\ local = load(fs)
    /\ \E T \in SUBSET Hashes :
           /\ glacier = Tombstones(T).g /\ dynamo = Tombstones(T).d /\ s3 = Tombstones(T).s
           /\ pre = Tombstones(T)
    /\ now = 0
    /\ phase = "new" /\ dry = FALSE /\ log = << >> /\ failures = 0 /\ runs = 1
    /\ prev = NoPrev /\ faulted = 0
    /\ arg = [op |-> "upload_new_files"]
    /\ ret = Nil

\* backup.rs 80-109, with up to MaxPhaseFaults failing calls
NewFilesPhase ==
    /\ phase = "new"
    /\ \E F \in SubsetsUpTo(FaultKeys(Len(get_new_files(local, glacier))), MaxPhaseFaults),
          ord \in Perms(NumPaths) :
          LET r == upload_new_files(World, local, fs, F, ord, now) IN
          /\ glacier' = r.g /\ dynamo' = r.d /\ s3' = r.s
          /\ log' = InPhase(r.log, "new")
          /\ failures' = r.failures
          /\ faulted' = NumFailed(r.log)
    /\ phase' = "changed"
    /\ UNCHANGED <<fs, local, now, dry, runs, pre, prev, arg, ret>>

NextNewFiles == NewFilesPhase

SpecNewFiles == InitNewFiles /\ [][NextNewFiles]_vars

\* the fallback Put of an undelete that failed at entry k of the log
FallbackPuts(k) ==
    {j \in (k + 1)..Len(log) :
        log[j].op = "s3put" /\ log[j].hash = log[k].hash /\ log[j].path = log[k].path}

LogHas(op, h, p) ==
    \E i \in 1..Len(log) : log[i].op = op /\ log[i].hash = h /\ log[i].path = p

\* the paths that had a Put fail
PutFailed == {log[i].path : i \in {j \in 1..Len(log) : log[j].op = "s3put" /\ ~log[j].ok}}

InitRestore ==
    /\ RunIdle
    /\ dynamo \in [Hashes -> StoredItems]
    /\ s3 \in [Hashes -> {<<"obj">>, <<"obj", "dm">>}]
    /\ \A h \in Hashes : (dynamo[h].present /\ PathsOf(dynamo[h]) = {}) => ~IsCurrent(s3[h])
    /\ now = 0
    /\ arg \in {[op |-> "restore", dry_run |-> b] : b \in BOOLEAN}
    /\ ret = Nil

\* main.rs 236-244: the files made under the target directory, the downloads issued
\* and the stores as they were before
Restore ==
    /\ arg.op = "restore" /\ ret = Nil
    /\ \E ord \in Perms(NumHashes), pick \in Perms(NumPaths) :
          ret' = [op |-> "restore",
                  tree |-> restore_cli(dynamo, s3, ord, pick, arg.dry_run),
                  gets |-> downloads(dynamo, ord, arg.dry_run),
                  d |-> dynamo, s |-> s3]
    /\ RunUnchanged
    /\ UNCHANGED <<dynamo, s3, now, arg>>

NextRestore == Restore

SpecRestore == InitRestore /\ [][NextRestore]_vars

\* C36: a restore with --dry-run downloads nothing from the object store and creates
\* or modifies no file under the target directory.
C36_RestoreDryRun ==
    (ret.op = "restore" /\ arg.dry_run) =>
        /\ ret.gets = << >>
        /\ \A p \in Paths : ~ret.tree[p].made

(* ---------------- backup.rs: the six phases, one call ---------------- *)
\* the trees a phase is called over: every file written after the last backup
PhaseTrees == [Paths -> {NoFile} \cup {[hash |-> h, mtime |-> MaxMtime] : h \in Hashes}]

\* the glacier rows a run can have left: none, a row inserted and never uploaded, a
\* row uploaded, a row modified after its upload, a row marked pending_delete
PhaseRows ==
    {NoRow,
     RowOf(GlacierFile(1, NoHash, 1, NoTime, FALSE)),
     RowOf(GlacierFile(1, 1, 1, 1, FALSE)),
     RowOf(GlacierFile(1, 1, 1, 0, FALSE)),
     RowOf(GlacierFile(1, 1, 1, 1, TRUE))}

\* the items a run can have left: none, a tombstone (expired at time 1 or not), a
\* tracker with one path, a tracker with every path
PhaseItems ==
    {NoItem}
    \cup {[present |-> TRUE, file_names |-> {NONE_STR}, expiration |-> e] : e \in {0, MaxTime}}
    \cup {[present |-> TRUE, file_names |-> n, expiration |-> MaxTime] : n \in {{1}, Paths}}

PhaseNames == {"pending_uploads", "pending_updates", "pending_deletes",
               "new", "changed", "missing"}

\* a run has loaded the tree; arg.op is the phase that is called next
InitPhases ==
    /\ fs \in PhaseTrees
    /\ local = load(fs)
    /\ glacier \in [Paths -> PhaseRows]
    /\ dynamo \in [Hashes -> PhaseItems]
    /\ s3 = [h \in Hashes |-> IF ~dynamo[h].present THEN << >>
                              ELSE IF PathsOf(dynamo[h]) = {} THEN <<"obj", "dm">>
                              ELSE <<"obj">>]
    /\ now = 1
    /\ phase = "idle" /\ dry = FALSE /\ log = << >> /\ failures = 0 /\ runs = 1
    /\ pre = NoStores /\ prev = NoPrev /\ faulted = 0
    /\ arg \in {[op |-> n] : n \in PhaseNames}
    /\ ret = Nil

\* the phase returned (length - failures, failures) and left the world r
PhaseReturns(length, r) ==
    /\ glacier' = r.g /\ dynamo' = r.d /\ s3' = r.s
    /\ log' = InPhase(r.log, arg.op)
    /\ failures' = r.failures
    /\ faulted' = NumFailed(r.log)
    /\ ret' = [op |-> arg.op, length |-> length, successes |-> length - r.failures,
               failures |-> r.failures]
    /\ UNCHANGED <<fs, local, now, phase, dry, runs, pre, prev, arg>>

\* the failing calls of a phase over n files, and the order its writes complete in
PhaseFaults(n) == SubsetsUpTo(FaultKeys(n), MaxPhaseFaults) \X Perms(NumPaths)

\* backup.rs 47-58
CallFixPendingUploads ==
    /\ arg.op = "pending_uploads" /\ ret = Nil
    /\ LET ps == get_pending_upload_files(glacier) IN
       /\ AllOnDisk(ps)
       /\ \E x \in PhaseFaults(Len(ps)) :
             PhaseReturns(Len(ps), fix_pending_uploads(World, fs, x[1], x[2], now))

\* backup.rs 60-71
CallFixPendingUpdates ==
    /\ arg.op = "pending_updates" /\ ret = Nil
    /\ LET ps == get_pending_update_files(glacier) IN
       /\ AllOnDisk(ps)
       /\ \E x \in PhaseFaults(Len(ps)) :
             PhaseReturns(Len(ps), fix_pending_updates(World, fs, x[1], x[2], now))

\* backup.rs 73-84
CallFixPendingDeletes ==
    /\ arg.op = "pending_deletes" /\ ret = Nil
    /\ LET ps == get_pending_delete_files(glacier) IN
       \E x \in PhaseFaults(Len(ps)) :
          PhaseReturns(Len(ps), fix_pending_deletes(World, x[1], x[2], now))

\* backup.rs 86-109
CallUploadNewFiles ==
    /\ arg.op = "new" /\ ret = Nil
    /\ LET ps == get_new_files(local, glacier) IN
       \E x \in PhaseFaults(Len(ps)) :
          PhaseReturns(Len(ps), upload_new_files(World, local, fs, x[1], x[2], now))

\* backup.rs 111-134
CallUpdateChangedFiles ==
    /\ arg.op = "changed" /\ ret = Nil
    /\ LET ps == get_changed_files(local, glacier) IN
       \E x \in PhaseFaults(Len(ps)) :
          PhaseReturns(Len(ps), update_changed_files(World, local, fs, x[1], x[2], now))

\* backup.rs 136-153
CallDeleteMissingFiles ==
    /\ arg.op = "missing" /\ ret = Nil
    /\ LET ps == get_missing_files(local, glacier) IN
       \E x \in PhaseFaults(Len(ps)) :
          PhaseReturns(Len(ps), delete_missing_files(World, local, x[1], x[2], now))

NextPhases ==
    \/ CallFixPendingUploads
    \/ CallFixPendingUpdates
    \/ CallFixPendingDeletes
    \/ CallUploadNewFiles
    \/ CallUpdateChangedFiles
    \/ CallDeleteMissingFiles

SpecPhases == InitPhases /\ [][NextPhases]_vars

\* C39: every call of a backup phase returns a failures count that is at most the
\* number of files selected for the phase, each file counting one failure at most:
\* successes = length - failures does not underflow, and successes + failures = length.
C39_FailuresBounded ==
    ret.op \in PhaseNames =>
        /\ ret.failures <= ret.length
        /\ ret.successes >= 0
        /\ ret.successes + ret.failures = ret.length

\* a phase over one file in which two calls made for the file failed: one failure
C39_Witness ==
    /\ ret.op \in PhaseNames
    /\ ret.length = 1 /\ faulted = 2 /\ ret.failures = 1

(* ----------------------- claims on the backup run --------------------- *)
\* C22 (I4): after a backup run that ends with a failures count of zero, every glacier
\* row has a path that was on disk when the run scanned the tree; no row remains for
\* a missing path.
C22_I4_NoOrphanRows ==
    (EndOfRun /\ failures = 0) =>
        \A p \in Paths : glacier[p].present => fs[p].hash # NoHash

\* a run with no failure has removed the row of a file that was gone from disk
C22_Witness ==
    /\ EndOfRun /\ failures = 0
    /\ \E p \in Paths :
          /\ pre.g[p].present /\ pre.g[p].uploaded # NoTime /\ fs[p].hash = NoHash
          /\ ~glacier[p].present

\* an entry of the log that changed, or tried to change, a store or the glacier relation
IsMutation(e) == e.op # "dget"

\* C30: within one backup run every lookup of a tracker is completed before the first
\* mutation of the object store, the metadata store or the glacier relation.
C30_LookupsFirst ==
    \A i, j \in 1..Len(log) :
        (i < j /\ IsMutation(log[i])) => log[j].op # "dget"

\* path p, backed up with content h1 and listed by the tracker of h1, now holds h2
ContentChanged(p, h1, h2) ==
    /\ h1 # h2
    /\ pre.g[p].present /\ pre.g[p].file_hash = h1 /\ pre.g[p].uploaded # NoTime
    /\ ~pre.g[p].pending_delete
    /\ pre.d[h1].present /\ p \in PathsOf(pre.d[h1])
    /\ fs[p].hash = h2 /\ fs[p].mtime > pre.g[p].modified

\* C31: after a run with zero failures over a path whose content changed from h1 to
\* h2, the path is not in the paths of tracker h1, it is in the paths of tracker h2,
\* and its glacier row holds h2, whether or not h2 had a tracker before the run.
C31_ContentChange ==
    (EndOfRun /\ failures = 0 /\ faulted = 0) =>
        \A p \in Paths, h1, h2 \in Hashes :
            ContentChanged(p, h1, h2)
            => /\ p \notin PathsOf(dynamo[h1])
               /\ dynamo[h2].present /\ p \in PathsOf(dynamo[h2])
               /\ glacier[p].present /\ glacier[p].file_hash = h2

\* the paths whose glacier row referenced hash h when the run started
Referencing(h) == {p \in Paths : pre.g[p].present /\ pre.g[p].file_hash = h}

\* hash h was referenced by two paths or more, its tracker listed paths, and every
\* one of the paths is gone from disk, as is every other file of that content
AllPathsGone(h) ==
    /\ Cardinality(Referencing(h)) >= 2
    /\ \A p \in Referencing(h) : pre.g[p].uploaded # NoTime /\ ~pre.g[p].pending_delete
    /\ pre.d[h].present /\ PathsOf(pre.d[h]) # {} /\ PathsOf(pre.d[h]) \subseteq Referencing(h)
    /\ IsCurrent(pre.s[h])
    /\ \A p \in Referencing(h) : fs[p].hash = NoHash
    /\ Holders(h) = {}

EmptyBeforeAndAfter(h) == PathsOf(pre.d[h]) = {} /\ Holders(h) = {}

\* C34: a run issues no object-store operation for a hash whose path set is empty
\* both before and after the planned change, also when a missing path references a
\* hash that has no tracker.
C34_VacuousChange ==
    (EndOfRun /\ faulted = 0) =>
        \A h \in Hashes : EmptyBeforeAndAfter(h) => NumIssued(ObjOps, h) = 0

\* the trackers of the metadata store that have paths
WithPaths == {h \in Hashes : dynamo[h].present /\ PathsOf(dynamo[h]) # {}}

\* C35: a restore after a run without a failed call issues exactly one download per
\* tracker that has paths, writes the object's content to every path of such a
\* tracker, and creates no file for a tracker without paths.
C35_RestoreFanOut ==
    (EndOfRun /\ faulted = 0) =>
        \A ord \in Perms(NumHashes), pick \in Perms(NumPaths) :
            LET tree == restore_cli(dynamo, s3, ord, pick, FALSE)
                gets == downloads(dynamo, ord, FALSE)
            IN  /\ Len(gets) = Cardinality(WithPaths)
                /\ \A h \in WithPaths : \E k \in 1..Len(gets) : gets[k] = h
                /\ \A h \in WithPaths : \A p \in PathsOf(dynamo[h]) :
                       tree[p].made /\ tree[p].content = h
                /\ \A p \in Paths : tree[p].made => \E h \in WithPaths : p \in PathsOf(dynamo[h])

\* C37: at the end of a backup run in which no call failed, no path is in the paths
\* of two different trackers, so a restore writes no path from two objects.
C37_OneTrackerPerPath ==
    (EndOfRun /\ faulted = 0) =>
        \A p \in Paths, h1, h2 \in Hashes :
            (/\ dynamo[h1].present /\ p \in PathsOf(dynamo[h1])
             /\ dynamo[h2].present /\ p \in PathsOf(dynamo[h2]))
            => h1 = h2

\* path p was backed up with content h, the tracker of h lists it and the object of h
\* is current; the file was written again with the same content (a later mtime), and
\* no other file has or had that content
Touched(p, h) ==
    /\ pre.g[p].present /\ pre.g[p].file_hash = h
    /\ pre.g[p].uploaded # NoTime /\ ~pre.g[p].pending_delete
    /\ pre.d[h].present /\ PathsOf(pre.d[h]) = {p}
    /\ IsCurrent(pre.s[h])
    /\ fs[p].hash = h /\ fs[p].mtime > pre.g[p].modified
    /\ Holders(h) = {p} /\ Referencing(h) = {p}

\* C38: a run over a path whose mtime increased while its content hash did not change
\* issues no object-store delete and no object-store put for the hash, leaves the
\* path in the tracker's paths, and changes nothing of the glacier row but its times.
C38_TouchedFile ==
    (EndOfRun /\ faulted = 0) =>
        \A p \in Paths, h \in Hashes :
            Touched(p, h)
            => /\ NumIssued({"s3del", "s3put"}, h) = 0
               /\ dynamo[h].present /\ p \in PathsOf(dynamo[h])
               /\ glacier[p].present /\ glacier[p].file_hash = h
               /\ ~glacier[p].pending_delete
               /\ glacier[p].modified = fs[p].mtime

====
